---------------------------- MODULE Spec2Model ----------------------------
(***************************************************************************)
(* BirdSeed: a one-shot seeder that reads per-ticker CSV files from a data *)
(* directory and bulk-loads them into the candles table (src/src/main.go). *)
(*                                                                         *)
(* Go strings are modelled as sequences of one-character strings, so that  *)
(* splitting, "$"-stripping and number/date parsing are computed character *)
(* by character.                                                           *)
(***************************************************************************)
EXTENDS Integers, Sequences, FiniteSets, TLC

(***************************************************************************)
(* Characters and small helpers                                            *)
(***************************************************************************)
Digits == {"0", "1", "2", "3", "4", "5", "6", "7", "8", "9"}

DigitVal(c) ==
    CASE c = "0" -> 0 [] c = "1" -> 1 [] c = "2" -> 2 [] c = "3" -> 3
      [] c = "4" -> 4 [] c = "5" -> 5 [] c = "6" -> 6 [] c = "7" -> 7
      [] c = "8" -> 8 [] c = "9" -> 9

DigitChar(n) ==
    CASE n = 0 -> "0" [] n = 1 -> "1" [] n = 2 -> "2" [] n = 3 -> "3"
      [] n = 4 -> "4" [] n = 5 -> "5" [] n = 6 -> "6" [] n = 7 -> "7"
      [] n = 8 -> "8" [] n = 9 -> "9"

AllDigits(s) == \A i \in 1..Len(s) : s[i] \in Digits

RECURSIVE DigitsVal(_)
DigitsVal(s) ==
    IF s = <<>> THEN 0
    ELSE 10 * DigitsVal(SubSeq(s, 1, Len(s) - 1)) + DigitVal(s[Len(s)])

\* position of the first occurrence of c in s, or 0
IndexOf(s, c) ==
    IF \E i \in 1..Len(s) : s[i] = c
    THEN CHOOSE i \in 1..Len(s) : s[i] = c /\ \A j \in 1..(i - 1) : s[j] # c
    ELSE 0

\* strings.Split(name, ".")[0]: everything before the first "."
SplitStem(name) ==
    IF IndexOf(name, ".") = 0 THEN name
    ELSE SubSeq(name, 1, IndexOf(name, ".") - 1)

(***************************************************************************)
(* Numbers.  A natural number of any size is the sequence of its decimal   *)
(* digits, most significant first, without leading zeros (0 is <<>>).      *)
(***************************************************************************)
RECURSIVE NatDigits(_)
NatDigits(n) == IF n = 0 THEN <<>> ELSE Append(NatDigits(n \div 10), n % 10)

RECURSIVE MulAddCarry(_, _, _)
\* the Len(ds) low digits of ds * k + c and the carry out of them: the low
\* half of ds first, then the high half with the carry (a natural) of the low
MulAddCarry(ds, k, c) ==
    IF ds = <<>> THEN [digits |-> <<>>, carry |-> c]
    ELSE IF Len(ds) = 1
    THEN [digits |-> <<(ds[1] * k + c) % 10>>, carry |-> (ds[1] * k + c) \div 10]
    ELSE LET h  == Len(ds) \div 2
             lo == MulAddCarry(SubSeq(ds, h + 1, Len(ds)), k, c)
             hi == MulAddCarry(SubSeq(ds, 1, h), k, lo.carry)
         IN  CASE lo.carry >= 0 ->
                    [digits |-> hi.digits \o lo.digits, carry |-> hi.carry]

\* ds * k + c for a natural ds and small k, c
MulAdd(ds, k, c) ==
    LET r == MulAddCarry(ds, k, c)
    IN  NatDigits(r.carry) \o r.digits

RECURSIVE Times(_, _, _)
\* ds * k^n for k in {2, 5}: at most ten factors at a time, a larger n as
\* one half of the factors and then, on that product, the other half
Times(ds, k, n) ==
    IF n <= 10 THEN MulAdd(ds, k^n, 0)
    ELSE LET half == Times(ds, k, n \div 2)
         IN  CASE Len(half) >= 0 -> Times(half, k, n - n \div 2)

\* ds without its leading zeros
StripLeading(ds) ==
    LET nz == { i \in 1..Len(ds) : ds[i] # 0 }
    IN  IF nz = {} THEN <<>>
        ELSE SubSeq(ds, CHOOSE i \in nz : \A j \in nz : i <= j, Len(ds))

\* ds without its trailing zeros
StripTrailing(ds) ==
    LET nz == { i \in 1..Len(ds) : ds[i] # 0 }
    IN  IF nz = {} THEN <<>>
        ELSE SubSeq(ds, 1, CHOOSE i \in nz : \A j \in nz : i >= j)

\* a and b read as the fractions 0.a and 0.b, neither ending in 0: 0.a < 0.b
FracLess(a, b) ==
    \/ \E i \in 1..Len(a) :
          /\ i <= Len(b)
          /\ a[i] < b[i]
          /\ \A j \in 1..(i - 1) : a[j] = b[j]
    \/ /\ Len(a) < Len(b)
       /\ \A j \in 1..Len(a) : a[j] = b[j]

\* a < b for naturals
NatLess(a, b) ==
    \/ Len(a) < Len(b)
    \/ Len(a) = Len(b) /\ a # b /\ FracLess(a, b)

Uppers == <<"A", "B", "C", "D", "E", "F", "G", "H", "I", "J", "K", "L", "M",
            "N", "O", "P", "Q", "R", "S", "T", "U", "V", "W", "X", "Y", "Z">>
Lowers == <<"a", "b", "c", "d", "e", "f", "g", "h", "i", "j", "k", "l", "m",
            "n", "o", "p", "q", "r", "s", "t", "u", "v", "w", "x", "y", "z">>

Lower(c) == IF IndexOf(Uppers, c) = 0 THEN c ELSE Lowers[IndexOf(Uppers, c)]

HexLetters == {"a", "b", "c", "d", "e", "f"}

HexVal(c) ==
    IF c \in Digits THEN DigitVal(c) ELSE 9 + IndexOf(Lowers, Lower(c))

(***************************************************************************)
(* The int64 of Candle.Volume: a sign and the digits of the magnitude      *)
(***************************************************************************)
Int64(neg, ds) == [neg |-> neg /\ ds # <<>>, digits |-> ds]

Zero64 == Int64(FALSE, <<>>)

MaxInt64 == <<9, 2, 2, 3, 3, 7, 2, 0, 3, 6, 8, 5, 4, 7, 7, 5, 8, 0, 7>>
MinInt64 == <<9, 2, 2, 3, 3, 7, 2, 0, 3, 6, 8, 5, 4, 7, 7, 5, 8, 0, 8>>

\* strconv.ParseInt(s, 10, 64): an optional sign followed by decimal digits
\* only (no "_" with an explicit base); a value outside int64 is ErrRange.
ParseInt(s) ==
    LET sgn  == IF s # <<>> /\ s[1] \in {"+", "-"} THEN 1 ELSE 0
        neg  == sgn = 1 /\ s[1] = "-"
        body == SubSeq(s, sgn + 1, Len(s))
        mag  == StripLeading([i \in 1..Len(body) |-> DigitVal(body[i])])
    IN  IF body # <<>> /\ AllDigits(body)
           /\ ~NatLess(IF neg THEN MinInt64 ELSE MaxInt64, mag)
        THEN [ok |-> TRUE, val |-> Int64(neg, mag)]
        ELSE [ok |-> FALSE, val |-> Zero64]

(***************************************************************************)
(* clean and parse (main.go:219-230).  A float64 is the number its text    *)
(* denotes, kept exactly: d1.d2d3... * 10^exp with digits d1 d2 d3 ...     *)
(* (no leading or trailing zero; zero has none), or an infinity, or NaN.   *)
(* Rounding to the nearest float64, underflow included, is not modelled.   *)
(***************************************************************************)
\* strings.Replace(s, "$", "", -1)
clean(s) == SelectSeq(s, LAMBDA c : c # "$")

Float(kind, neg, ds, e) == [kind |-> kind, neg |-> neg, digits |-> ds, exp |-> e]

\* n * 10^shift for a natural n
Decimal(neg, n, shift) ==
    IF n = <<>> THEN Float("num", neg, <<>>, 0)
    ELSE Float("num", neg, StripTrailing(n), Len(n) - 1 + shift)

NoFloat == Float("num", FALSE, <<>>, 0)

\* 2^1024 - 2^970, halfway from the largest float64 to 2^1024, is
\* 1.797...e308 with these digits: from there on ParseFloat gives ErrRange
HalfwayToInf ==
    << 1, 7, 9, 7, 6, 9, 3, 1, 3, 4, 8, 6, 2, 3, 1, 5, 8, 0, 7, 9, 3, 7, 2, 8,
       9, 7, 1, 4, 0, 5, 3, 0, 3, 4, 1, 5, 0, 7, 9, 9, 3, 4, 1, 3, 2, 7, 1, 0,
       0, 3, 7, 8, 2, 6, 9, 3, 6, 1, 7, 3, 7, 7, 8, 9, 8, 0, 4, 4, 4, 9, 6, 8,
       2, 9, 2, 7, 6, 4, 7, 5, 0, 9, 4, 6, 6, 4, 9, 0, 1, 7, 9, 7, 7, 5, 8, 7,
       2, 0, 7, 0, 9, 6, 3, 3, 0, 2, 8, 6, 4, 1, 6, 6, 9, 2, 8, 8, 7, 9, 1, 0,
       9, 4, 6, 5, 5, 5, 5, 4, 7, 8, 5, 1, 9, 4, 0, 4, 0, 2, 6, 3, 0, 6, 5, 7,
       4, 8, 8, 6, 7, 1, 5, 0, 5, 8, 2, 0, 6, 8, 1, 9, 0, 8, 9, 0, 2, 0, 0, 0,
       7, 0, 8, 3, 8, 3, 6, 7, 6, 2, 7, 3, 8, 5, 4, 8, 4, 5, 8, 1, 7, 7, 1, 1,
       5, 3, 1, 7, 6, 4, 4, 7, 5, 7, 3, 0, 2, 7, 0, 0, 6, 9, 8, 5, 5, 5, 7, 1,
       3, 6, 6, 9, 5, 9, 6, 2, 2, 8, 4, 2, 9, 1, 4, 8, 1, 9, 8, 6, 0, 8, 3, 4,
       9, 3, 6, 4, 7, 5, 2, 9, 2, 7, 1, 9, 0, 7, 4, 1, 6, 8, 4, 4, 4, 3, 6, 5,
       5, 1, 0, 7, 0, 4, 3, 4, 2, 7, 1, 1, 5, 5, 9, 6, 9, 9, 5, 0, 8, 0, 9, 3,
       0, 4, 2, 8, 8, 0, 1, 7, 7, 9, 0, 4, 1, 7, 4, 4, 9, 7, 7, 9, 2 >>

OutOfRange(v) ==
    /\ v.digits # <<>>
    /\ \/ v.exp > 308
       \/ v.exp = 308 /\ ~FracLess(v.digits, HalfwayToInf)

\* commonPrefixLenIgnoreCase(s, prefix), prefix in lower case
CommonPrefixLen(s, prefix) ==
    LET n    == IF Len(s) < Len(prefix) THEN Len(s) ELSE Len(prefix)
        diff == { i \in 1..n : Lower(s[i]) # prefix[i] }
    IN  IF diff = {} THEN n ELSE (CHOOSE i \in diff : \A j \in diff : i <= j) - 1

\* special: "inf" and "infinity" with an optional sign, "nan" without one,
\* in any case; ParseFloat wants the whole text consumed
Special(s) ==
    LET signed == s # <<>> /\ s[1] \in {"+", "-"}
        rest   == IF signed THEN Tail(s) ELSE s
        n0     == CommonPrefixLen(rest, <<"i", "n", "f", "i", "n", "i", "t", "y">>)
        n      == IF 3 < n0 /\ n0 < 8 THEN 3 ELSE n0
    IN  IF s # <<>> /\ (signed \/ Lower(s[1]) = "i")
           /\ n \in {3, 8} /\ n = Len(rest)
        THEN [ok |-> TRUE, val |-> Float("inf", signed /\ s[1] = "-", <<>>, 0)]
        ELSE IF s # <<>> /\ Lower(s[1]) = "n" /\ Len(s) = 3
                /\ CommonPrefixLen(s, <<"n", "a", "n">>) = 3
        THEN [ok |-> TRUE, val |-> Float("nan", FALSE, <<>>, 0)]
        ELSE [ok |-> FALSE, val |-> NoFloat]

RECURSIVE UnderscoreScan(_, _, _)
\* the loop of underscoreOK; saw is "0" after a digit, "_" after an
\* underscore, "!" after anything else, "^" at the start
UnderscoreScan(s, saw, hex) ==
    IF s = <<>> THEN saw # "_"
    ELSE IF Head(s) \in Digits \/ (hex /\ Lower(Head(s)) \in HexLetters)
         THEN UnderscoreScan(Tail(s), "0", hex)
    ELSE IF Head(s) = "_"
         THEN saw = "0" /\ UnderscoreScan(Tail(s), "_", hex)
    ELSE saw # "_" /\ UnderscoreScan(Tail(s), "!", hex)

underscoreOK(s) ==
    LET t      == IF s # <<>> /\ s[1] \in {"+", "-"} THEN Tail(s) ELSE s
        prefix == Len(t) >= 2 /\ t[1] = "0" /\ Lower(t[2]) \in {"b", "o", "x"}
    IN  IF prefix
        THEN UnderscoreScan(SubSeq(t, 3, Len(t)), "0", Lower(t[2]) = "x")
        ELSE UnderscoreScan(t, "^", FALSE)

RECURSIVE ExpVal(_, _)
\* the exponent's digits, accumulated while the value is below 10000
ExpVal(cs, e) ==
    IF cs = <<>> THEN e
    ELSE IF Head(cs) = "_" THEN ExpVal(Tail(cs), e)
    ELSE ExpVal(Tail(cs), IF e < 10000 THEN e * 10 + DigitVal(Head(cs)) ELSE e)

\* the length of an optional sign in front of s
SignLen(s) == IF s # <<>> /\ s[1] \in {"+", "-"} THEN 1 ELSE 0

\* whether the unsigned text starts with the base prefix 0x
HexPrefix(body) == Len(body) > 2 /\ body[1] = "0" /\ Lower(body[2]) = "x"

\* the length of the mantissa at the start of rest: digits (hexadecimal
\* ones after 0x), underscores and at most one period
MantissaLen(rest, hex) ==
    LET IsMant(c) == \/ c \in {"_", "."}
                     \/ c \in Digits
                     \/ hex /\ Lower(c) \in HexLetters
        stops == { k \in 1..Len(rest) :
                     \/ ~IsMant(rest[k])
                     \/ rest[k] = "." /\ \E j \in 1..(k - 1) : rest[j] = "." }
    IN  IF stops = {} THEN Len(rest)
        ELSE (CHOOSE k \in stops : \A j \in stops : k <= j) - 1

\* the digits of the exponent after its letter and optional sign, or <<>>
ExpDigits(after) ==
    SubSeq(after,
           IF Len(after) >= 2 /\ after[2] \in {"+", "-"} THEN 3 ELSE 2,
           Len(after))

\* readFloat from the mantissa mtext and what follows it: the exponent (e,
\* or the mandatory p of hexadecimal) and the check of the underscores
readExponent(s, hex, mtext, after) ==
    LET hasE == after # <<>> /\ Lower(after[1]) = (IF hex THEN "p" ELSE "e")
        eOk  == /\ ExpDigits(after) # <<>>
                /\ ExpDigits(after)[1] \in Digits
                /\ \A i \in 1..Len(ExpDigits(after)) :
                       ExpDigits(after)[i] \in Digits \cup {"_"}
        dot  == IndexOf(mtext, ".")
    IN  [ok   |-> /\ SelectSeq(mtext, LAMBDA c : c \notin {"_", "."}) # <<>>
                  /\ IF hasE THEN eOk ELSE (after = <<>> /\ ~hex)
                  /\ ((\E i \in 1..Len(s) : s[i] = "_") => underscoreOK(s)),
         neg  |-> s[1] = "-",
         hex  |-> hex,
         mant |-> SelectSeq(mtext, LAMBDA c : c \notin {"_", "."}),
         frac |-> IF dot = 0 THEN 0
                  ELSE Len(SelectSeq(SubSeq(mtext, dot + 1, Len(mtext)),
                                     LAMBDA c : c # "_")),
         exp  |-> IF ~(hasE /\ eOk) THEN 0
                  ELSE IF after[2] = "-" THEN 0 - ExpVal(ExpDigits(after), 0)
                  ELSE ExpVal(ExpDigits(after), 0)]

\* readFloat after the sign and the base prefix
readMantissa(s, hex, rest) ==
    readExponent(s, hex,
                 SubSeq(rest, 1, MantissaLen(rest, hex)),
                 SubSeq(rest, MantissaLen(rest, hex) + 1, Len(rest)))

\* readFloat after the sign
readUnsigned(s, body) ==
    readMantissa(s, HexPrefix(body),
                 IF HexPrefix(body) THEN SubSeq(body, 3, Len(body)) ELSE body)

\* readFloat, for a text it has to consume wholly: sign, mantissa (decimal,
\* or hexadecimal after 0x), exponent
readFloat(s) ==
    IF s = <<>>
    THEN [ok |-> FALSE, neg |-> FALSE, hex |-> FALSE, mant |-> <<>>,
          frac |-> 0, exp |-> 0]
    ELSE readUnsigned(s, SubSeq(s, SignLen(s) + 1, Len(s)))

RECURSIVE HexNat(_, _)
\* the natural number the hexadecimal digits cs denote, after acc
HexNat(cs, acc) ==
    IF cs = <<>> THEN acc
    ELSE HexNat(Tail(cs), MulAdd(acc, 16, HexVal(Head(cs))))

\* a hexadecimal mantissa times 2^q is beyond every float64 when q > 1024
HexTooBig(r) ==
    r.hex /\ HexNat(r.mant, <<>>) # <<>> /\ r.exp - 4 * r.frac > 1024

\* the number a text readFloat accepted denotes
FloatOf(r) ==
    IF r.hex
    THEN LET h == HexNat(r.mant, <<>>)
             q == r.exp - 4 * r.frac
         IN  IF q >= 0 THEN Decimal(r.neg, Times(h, 2, q), 0)
             ELSE Decimal(r.neg, Times(h, 5, 0 - q), q)
    ELSE Decimal(r.neg,
                 StripLeading([i \in 1..Len(r.mant) |-> DigitVal(r.mant[i])]),
                 r.exp - r.frac)

\* what ParseFloat returns given the results of special and of readFloat
parseResult(sp, r) ==
    IF sp.ok THEN sp
    ELSE IF r.ok /\ ~HexTooBig(r) /\ ~OutOfRange(FloatOf(r))
    THEN [ok |-> TRUE, val |-> FloatOf(r)]
    ELSE [ok |-> FALSE, val |-> NoFloat]

\* parse: strconv.ParseFloat(s, 64); any error makes createCandle call
\* log.Fatal
parse(s) == parseResult(Special(s), readFloat(s))

(***************************************************************************)
(* time.Parse with the two layouts of main.go:18-22, and Time.Format       *)
(***************************************************************************)
IsLeap(y) == y % 4 = 0 /\ (y % 100 # 0 \/ y % 400 = 0)

DaysIn(m, y) ==
    IF m = 2 THEN (IF IsLeap(y) THEN 29 ELSE 28)
    ELSE IF m \in {4, 6, 9, 11} THEN 30 ELSE 31

\* time.Time{}, the zero Time: January 1 of year 1
ZeroTime == [y |-> 1, m |-> 1, d |-> 1]

\* what time.Parse returns with an error: the zero Time
NoDate == [ok |-> FALSE, y |-> ZeroTime.y, m |-> ZeroTime.m, d |-> ZeroTime.d]

MkDate(ys, ms, ds) ==
    IF AllDigits(ys) /\ AllDigits(ms) /\ AllDigits(ds)
    THEN LET y == DigitsVal(ys)
             m == DigitsVal(ms)
             d == DigitsVal(ds)
         IN  IF m \in 1..12 /\ d >= 1 /\ d <= DaysIn(m, y)
             THEN [ok |-> TRUE, y |-> y, m |-> m, d |-> d]
             ELSE NoDate
    ELSE NoDate

\* time.Parse(layoutISO, s), layoutISO = "2006-01-02"
TimeParseISO(s) ==
    IF Len(s) = 10 /\ s[5] = "-" /\ s[8] = "-"
    THEN MkDate(SubSeq(s, 1, 4), SubSeq(s, 6, 7), SubSeq(s, 9, 10))
    ELSE NoDate

\* time.Parse(layoutUS, s), layoutUS = "01/02/2006" (declared, never used)
TimeParseUS(s) ==
    IF Len(s) = 10 /\ s[3] = "/" /\ s[6] = "/"
    THEN MkDate(SubSeq(s, 7, 10), SubSeq(s, 1, 2), SubSeq(s, 4, 5))
    ELSE NoDate

\* c.Date.Format("2006-01-02")
FormatISO(t) ==
    << DigitChar((t.y \div 1000) % 10), DigitChar((t.y \div 100) % 10),
       DigitChar((t.y \div 10) % 10), DigitChar(t.y % 10), "-",
       DigitChar(t.m \div 10), DigitChar(t.m % 10), "-",
       DigitChar(t.d \div 10), DigitChar(t.d % 10) >>

(***************************************************************************)
(* createCandle (main.go:175-217).  A row is the sequence of its fields;   *)
(* Go's s[k] is row[k+1].  Indexing past the end of the row panics, a      *)
(* price that does not parse ends the process through log.Fatal.           *)
(***************************************************************************)
NoCandle == [Ticker |-> <<>>, Date |-> ZeroTime,
             Open |-> NoFloat, Close |-> NoFloat, High |-> NoFloat,
             Low |-> NoFloat, Volume |-> Zero64]

Outcome(kind, candle) == [kind |-> kind, candle |-> candle]

\* a mutation of createCandle: the close price is read from column 1 and the
\* open price from column 4
createCandleSwapped(ticker, s) ==
    LET date == TimeParseISO(s[1])
    IN  IF Len(s) < 1 THEN Outcome("panic", NoCandle)
        ELSE IF ~date.ok THEN Outcome("err", NoCandle)
        ELSE IF Len(s) < 2 THEN Outcome("panic", NoCandle)
        ELSE IF ~parse(clean(s[2])).ok THEN Outcome("fatal", NoCandle)
        ELSE IF Len(s) < 3 THEN Outcome("panic", NoCandle)
        ELSE IF ~parse(clean(s[3])).ok THEN Outcome("fatal", NoCandle)
        ELSE IF Len(s) < 4 THEN Outcome("panic", NoCandle)
        ELSE IF ~parse(clean(s[4])).ok THEN Outcome("fatal", NoCandle)
        ELSE IF Len(s) < 5 THEN Outcome("panic", NoCandle)
        ELSE IF ~parse(clean(s[5])).ok THEN Outcome("fatal", NoCandle)
        ELSE IF Len(s) < 7 THEN Outcome("panic", NoCandle)
        ELSE Outcome("ok",
                 [Ticker |-> ticker,
                  Date   |-> [y |-> date.y, m |-> date.m, d |-> date.d],
                  Open   |-> parse(clean(s[5])).val,
                  Close  |-> parse(clean(s[2])).val,
                  High   |-> parse(clean(s[3])).val,
                  Low    |-> parse(clean(s[4])).val,
                  Volume |-> IF ParseInt(s[7]).ok THEN ParseInt(s[7]).val
                             ELSE Zero64])

createCandle(ticker, s) ==
    LET date == TimeParseISO(s[1])
    IN  IF Len(s) < 1 THEN Outcome("panic", NoCandle)
        ELSE IF ~date.ok THEN Outcome("err", NoCandle)
        ELSE IF Len(s) < 2 THEN Outcome("panic", NoCandle)
        ELSE IF ~parse(clean(s[2])).ok THEN Outcome("fatal", NoCandle)
        ELSE IF Len(s) < 3 THEN Outcome("panic", NoCandle)
        ELSE IF ~parse(clean(s[3])).ok THEN Outcome("fatal", NoCandle)
        ELSE IF Len(s) < 4 THEN Outcome("panic", NoCandle)
        ELSE IF ~parse(clean(s[4])).ok THEN Outcome("fatal", NoCandle)
        ELSE IF Len(s) < 5 THEN Outcome("panic", NoCandle)
        ELSE IF ~parse(clean(s[5])).ok THEN Outcome("fatal", NoCandle)
        ELSE IF Len(s) < 7 THEN Outcome("panic", NoCandle)
        ELSE Outcome("ok",
                 [Ticker |-> ticker,
                  Date   |-> [y |-> date.y, m |-> date.m, d |-> date.d],
                  Open   |-> parse(clean(s[2])).val,
                  Close  |-> parse(clean(s[5])).val,
                  High   |-> parse(clean(s[3])).val,
                  Low    |-> parse(clean(s[4])).val,
                  Volume |-> IF ParseInt(s[7]).ok THEN ParseInt(s[7]).val
                             ELSE Zero64])


(***************************************************************************)
(* The data directory.  os.ReadDir returns the entries sorted by filename, *)
(* so a directory is a sorted selection of the file names below.  A file   *)
(* is given as the records encoding/csv would split it into.               *)
(***************************************************************************)
F(a) == <<a>>

Header7 == <<F("D"), F("O"), F("H"), F("L"), F("C"), F("A"), F("V")>>
Header6 == <<F("D"), F("C"), F("V"), F("O"), F("H"), F("L")>>

DateISO1 == <<"2", "0", "2", "3", "-", "0", "1", "-", "0", "3">>
DateISO2 == <<"2", "0", "2", "4", "-", "0", "2", "-", "2", "9">>
DateISO3 == <<"2", "0", "2", "3", "-", "0", "2", "-", "2", "9">>
DateUS1  == <<"0", "1", "/", "0", "3", "/", "2", "0", "2", "3">>
DateBad  == <<"n", "o", "t", "-", "a", "-", "d", "a", "t", "e">>

Price1 == <<"$", "1", "2", "5", ".", "0", "7">>
Price2 == <<"1", "3", "0", ".", "9">>
Price3 == <<"$", "1", "2", ".", "5", "0">>
Price4 == <<"a", "b", "c">>

Vol1 == <<"1", "1", "2", "1", "1", "7", "5", "0", "0">>
Vol2 == <<"N", "/", "A">>
Vol3 == <<"1", ".", "5">>

RowGood1 == <<DateISO1, Price1, Price2, Price3, Price2, Price1, Vol1>>
RowGood2 == <<DateISO2, Price2, Price2, Price1, Price3, Price2, Vol2>>
RowGood3 == <<DateISO1, Price3, Price1, Price3, Price1, Price3, Vol3>>
RowBadDate == <<DateBad, Price1, Price2, Price3, Price2, Price1, Vol1>>
RowBadPrice == <<DateISO1, Price1, Price4, Price3, Price2, Price1, Vol1>>
RowLayoutB == <<DateUS1, Price2, Vol1, Price1, Price2, Price3>>
RowShort == <<DateISO1, Price1, Price2, Price3, Price2, Vol1>>

AllNames == << <<"A", ".", "c">>, <<"A", ".", "t">>, <<"B", ".", "c">>,
               <<"C", ".", "c">>, <<"D", ".", "c">>, <<"E", ".", "c">>,
               <<"F", ".", "c">>, <<"G", ".", "c">> >>

FileData(name) ==
    CASE name = <<"A", ".", "c">> -> <<Header7, RowGood1, RowGood2>>
      [] name = <<"A", ".", "t">> -> <<Header7, RowGood3>>
      [] name = <<"B", ".", "c">> -> <<Header7, RowGood1, RowBadDate>>
      [] name = <<"C", ".", "c">> -> <<Header7>>
      [] name = <<"D", ".", "c">> -> <<Header6, RowLayoutB>>
      [] name = <<"E", ".", "c">> -> <<Header7, RowGood2, RowBadPrice>>
      [] name = <<"G", ".", "c">> -> <<Header7, RowGood1, RowShort>>
      [] OTHER -> <<>>

\* the number of directory entries and of runs the model explores
MaxFiles == 3
MaxRuns == 2

Directories ==
    { SelectSeq(AllNames, LAMBDA n : n \in S) :
        S \in { T \in SUBSET { AllNames[i] : i \in 1..Len(AllNames) } :
                  Cardinality(T) <= MaxFiles } }

(***************************************************************************)
(* createCandles (main.go:144-173)                                         *)
(***************************************************************************)
\* csv.Reader.ReadAll: every record must have as many fields as the first
ReadAll(name) ==
    LET data == FileData(name)
    IN  IF \A i \in 1..Len(data) : Len(data[i]) = Len(data[1])
        THEN [ok |-> TRUE, data |-> data]
        ELSE [ok |-> FALSE, data |-> <<>>]

\* the loop over data[1:]: stops at the first row that does not give a candle
RECURSIVE ConvertRows(_, _, _)
ConvertRows(ticker, rows, acc) ==
    IF rows = <<>> THEN [kind |-> "ok", candles |-> acc]
    ELSE LET r == createCandle(ticker, Head(rows))
         IN  IF r.kind = "ok"
             THEN ConvertRows(ticker, Tail(rows), Append(acc, r.candle))
             ELSE [kind |-> r.kind, candles |-> <<>>]

\* a mutation of createCandles: rows whose date does not parse are left out
\* instead of ending the file's conversion
createCandlesLenient(s, openOk) ==
    LET ticker == SplitStem(s)
        read   == ReadAll(s)
    IN  IF ~openOk THEN [kind |-> "err", candles |-> <<>>]
        ELSE IF ~read.ok THEN [kind |-> "err", candles |-> <<>>]
        ELSE IF read.data = <<>> THEN [kind |-> "panic", candles |-> <<>>]
        ELSE ConvertRows(ticker,
                         SelectSeq(Tail(read.data),
                                   LAMBDA r : TimeParseISO(r[1]).ok),
                         <<>>)

\* openOk: whether os.Open("../data/" + s) gave the file (lines 148-151
\* return its error otherwise, before anything is read)
createCandles(s, openOk) ==
    LET ticker == SplitStem(s)
        read   == ReadAll(s)
    IN  IF ~openOk THEN [kind |-> "err", candles |-> <<>>]
        ELSE IF ~read.ok THEN [kind |-> "err", candles |-> <<>>]
        ELSE IF read.data = <<>> THEN [kind |-> "panic", candles |-> <<>>]
        ELSE ConvertRows(ticker, Tail(read.data), <<>>)

(***************************************************************************)
(* The store: the rows of the candles table, each the seven column values  *)
(* (date, ticker, open, high, low, close, volume) of one INSERT row.       *)
(***************************************************************************)
BUF_LENGTH == 50
PARAM_LENGTH == 7
INSERTS_PER_TX == 10

\* the seven values bulkInsert appends for one candle (main.go:239)
Params(c) ==
    <<FormatISO(c.Date), c.Ticker, c.Open, c.High, c.Low, c.Close, c.Volume>>

\* SELECT COUNT(1) FROM candles WHERE ticker = ?
CountTicker(rows, ticker) ==
    Cardinality({ i \in 1..Len(rows) : rows[i][2] = ticker })

\* a row some earlier load left in the table
OldRow(ticker) ==
    <<DateISO1, ticker, Decimal(FALSE, <<1>>, 0), Decimal(FALSE, <<1>>, 0),
      Decimal(FALSE, <<1>>, 0), Decimal(FALSE, <<1>>, 0), Zero64>>

Tickers == << <<"A">>, <<"B">>, <<"C">> >>

InitialStores ==
    { [i \in 1..Len(q) |-> OldRow(q[i])] :
        q \in { SelectSeq(Tickers, LAMBDA t : t \in S) :
                  S \in SUBSET { Tickers[i] : i \in 1..Len(Tickers) } } }

InsertPrefix ==
    <<"INSERT INTO candles (date, ticker, open, high, low, close, volume) VALUES ">>

PlaceholderGroup ==
    <<"(", "?", ",", "?", ",", "?", ",", "?", ",", "?", ",", "?", ",", "?", ")">>

\* insertNCandlesStatement(n): the statement text, the prefix as one element
\* and the n comma-separated groups character by character
insertNCandlesStatement(n) ==
    LET g == Len(PlaceholderGroup) + 1
    IN  InsertPrefix \o
        [k \in 1..(IF n > 0 THEN g * n - 1 ELSE 0) |->
            IF k % g = 0 THEN "," ELSE PlaceholderGroup[k % g]]

\* the number of parameters a statement takes
Placeholders(text) == Cardinality({ k \in 1..Len(text) : text[k] = "?" })

\* the rows one Exec inserts: the arguments, seven to a row
RowsOf(args) ==
    [r \in 1..(Len(args) \div 7) |-> SubSeq(args, 7 * (r - 1) + 1, 7 * r)]

(***************************************************************************)
(* State                                                                   *)
(***************************************************************************)
VARIABLES
    pc,        \* where run() is
    result,    \* "running", or how the process ended: "ok", "error" (run
               \* returned an error), "fatal" (log.Fatal), "panic"
    stage,     \* the stage that ended the run in failure, "" otherwise
    runNo,     \* which run of the seeder over the same directory this is
    dir,       \* the entries os.ReadDir returns
    idx,       \* aggregateCandlesFromFiles: number of entries handled
    counts,    \* per handled entry, the count its existence check left
    qfail,     \* entries whose existence query returned an error
    opened,    \* entries createCandles was called for (os.Open attempted)
    openfail,  \* entries whose os.Open returned an error
    pingOk,    \* whether db.Ping succeeded
    candles,   \* the candles aggregated / handed to bulkInsert
    pos,       \* bulkInsert: candles consumed by the range loop
    values,    \* bulkInsert: the flat parameter buffer
    call,      \* the insertNPerTx call in progress: buf_len, n, from the loop
    stmt,      \* placeholders of the prepared statement
    si,        \* insertNPerTx: the loop variable i
    tx,        \* "none", "open", "committed", "closed" (commit failed)
    pending,   \* rows executed in the open transaction, not committed
    store,     \* rows of the candles table
    store0,    \* the table when this run started
    stmts,     \* rows per INSERT statement executed in this run
    txs,       \* transactions begun in this run
    prow,      \* the row handed to createCandle (parser specification)
    pout       \* what createCandle returned for it

vars == <<pc, result, stage, runNo, dir, idx, counts, qfail, opened, openfail, pingOk,
          candles, pos, values, call, stmt, si, tx, pending, store, store0,
          stmts, txs, prow, pout>>

dbVars == <<call, stmt, si, tx, pending, store, stmts, txs>>
aggVars == <<idx, counts, qfail, opened, openfail, candles>>
parseVars == <<prow, pout>>

NoCall == [buf_len |-> 0, n |-> 0, loop |-> FALSE]

\* the state of a process that has just been started
Fresh ==
    /\ pc = "loadenv"
    /\ result = "running"
    /\ stage = ""
    /\ idx = 0
    /\ counts = <<>>
    /\ qfail = {}
    /\ opened = {}
    /\ openfail = {}
    /\ pingOk = TRUE
    /\ candles = <<>>
    /\ pos = 0
    /\ values = <<>>
    /\ call = NoCall
    /\ stmt = 0
    /\ si = 0
    /\ tx = "none"
    /\ pending = <<>>
    /\ stmts = <<>>
    /\ txs = 0

Init ==
    /\ Fresh
    /\ runNo = 1
    /\ dir \in Directories
    /\ store \in InitialStores
    /\ store0 = store
    /\ prow = <<>>
    /\ pout = Outcome("none", NoCandle)

\* the process ends: run returned (nil or an error), log.Fatal or a panic
Exit(res, stg) ==
    /\ pc' = "exit"
    /\ result' = res
    /\ stage' = stg

(***************************************************************************)
(* run (main.go:44-71), connectToDatabase (main.go:77-92)                  *)
(***************************************************************************)
LoadEnvOk ==
    /\ pc = "loadenv"
    /\ pc' = "connect"
    /\ UNCHANGED <<result, stage, runNo, dir, pingOk, pos, values, store0>>
    /\ UNCHANGED <<aggVars, dbVars, parseVars>>

LoadEnvFail ==
    /\ pc = "loadenv"
    /\ Exit("error", "config")
    /\ UNCHANGED <<runNo, dir, pingOk, pos, values, store0>>
    /\ UNCHANGED <<aggVars, dbVars, parseVars>>

\* sqlx.Open succeeded.  The result of db.Ping() is discarded: the condition
\* of line 86 tests the err of sqlx.Open, which is nil here.
Connect(ping) ==
    /\ pc = "connect"
    /\ pingOk' = ping
    /\ pc' = "readdir"
    /\ UNCHANGED <<result, stage, runNo, dir, pos, values, store0>>
    /\ UNCHANGED <<aggVars, dbVars, parseVars>>

ConnectPingOk == Connect(TRUE)
ConnectPingFail == Connect(FALSE)

ConnectOpenFail ==
    /\ pc = "connect"
    /\ Exit("error", "connect")
    /\ UNCHANGED <<runNo, dir, pingOk, pos, values, store0>>
    /\ UNCHANGED <<aggVars, dbVars, parseVars>>

(***************************************************************************)
(* aggregateCandlesFromFiles (main.go:94-127)                              *)
(***************************************************************************)
ReadDirOk ==
    /\ pc = "readdir"
    /\ pc' = "entries"
    /\ UNCHANGED <<result, stage, runNo, dir, pingOk, pos, values, store0>>
    /\ UNCHANGED <<aggVars, dbVars, parseVars>>

ReadDirFail ==
    /\ pc = "readdir"
    /\ Exit("error", "readdir")
    /\ UNCHANGED <<runNo, dir, pingOk, pos, values, store0>>
    /\ UNCHANGED <<aggVars, dbVars, parseVars>>

\* a mutation of ObservedCount: candles already aggregated in memory for the
\* ticker count as present too
ObservedCountSeen(qok, ticker) ==
    IF qok
    THEN CountTicker(store, ticker)
         + Cardinality({ i \in 1..Len(candles) : candles[i].Ticker = ticker })
    ELSE 0

\* what db.Get leaves in count: the number of rows, or the zero value when
\* the query failed (the error is only logged, lines 107-109)
ObservedCount(qok, ticker) ==
    IF qok THEN CountTicker(store, ticker) ELSE 0

\* one iteration of the loop over the entries; qok: the count query
\* succeeded, fok: os.Open succeeds if the file is opened
Entry(qok, fok) ==
    /\ pc = "entries"
    /\ idx < Len(dir)
    /\ LET f      == dir[idx + 1]
           ticker == SplitStem(f)
           count  == ObservedCount(qok, ticker)
           c      == createCandles(f, fok)
       IN  /\ idx' = idx + 1
           /\ counts' = Append(counts, count)
           /\ qfail' = IF qok THEN qfail ELSE qfail \cup {idx + 1}
           /\ IF count > 0
              THEN /\ UNCHANGED <<pc, result, stage, opened, openfail, candles>>
              ELSE /\ opened' = opened \cup {idx + 1}
                   /\ openfail' = IF fok THEN openfail ELSE openfail \cup {idx + 1}
                   /\ IF c.kind = "ok"
                      THEN /\ candles' = candles \o c.candles
                           /\ UNCHANGED <<pc, result, stage>>
                      ELSE /\ Exit(IF c.kind = "err" THEN "error" ELSE c.kind,
                                   "load")
                           /\ UNCHANGED candles
    /\ UNCHANGED <<runNo, dir, pingOk, pos, values, store0>>
    /\ UNCHANGED <<dbVars, parseVars>>

EntryQueryOk == \E fok \in BOOLEAN : Entry(TRUE, fok)
EntryQueryFail == \E fok \in BOOLEAN : Entry(FALSE, fok)

AggregateReturn ==
    /\ pc = "entries"
    /\ idx = Len(dir)
    /\ pc' = "seed"
    /\ UNCHANGED <<result, stage, runNo, dir, pingOk, pos, values, store0>>
    /\ UNCHANGED <<aggVars, dbVars, parseVars>>

(***************************************************************************)
(* seed (main.go:129-142) and bulkInsert (main.go:232-259)                 *)
(***************************************************************************)
\* the buffer length at which the loop flushes a transaction (line 242)
FullAt == BUF_LENGTH * PARAM_LENGTH * INSERTS_PER_TX

\* a mutation of LoopCall: the loop of insertNPerTx stops one statement early
LoopCallShort(vals) ==
    [buf_len |-> BUF_LENGTH, n |-> INSERTS_PER_TX - 1, loop |-> TRUE]

\* the call made with a full buffer (line 243)
LoopCall(vals) == [buf_len |-> BUF_LENGTH, n |-> INSERTS_PER_TX, loop |-> TRUE]

\* the call made with what is left after the loop (line 252)
TailCall(vals) ==
    [buf_len |-> Len(vals) \div PARAM_LENGTH, n |-> 1, loop |-> FALSE]

\* the parameters of candles[from+1 .. from+k], appended in order (line 239)
Flatten(cs, from, k) ==
    [j \in 1..(PARAM_LENGTH * k) |->
        Params(cs[from + ((j - 1) \div PARAM_LENGTH) + 1])[((j - 1) % PARAM_LENGTH) + 1]]

\* a mutation of ArgsOf: the slice does not move with i
ArgsOfFirst(vals, i, buf_len, param_len) ==
    SubSeq(vals, 1, buf_len * param_len)

\* values[i*buf_len*param_len : (i+1)*buf_len*param_len] (line 275)
ArgsOf(vals, i, buf_len, param_len) ==
    SubSeq(vals, i * buf_len * param_len + 1, (i + 1) * buf_len * param_len)

Seed ==
    /\ pc = "seed"
    /\ IF Len(candles) = 0
       THEN Exit("ok", "")
       ELSE /\ pc' = "fill"
            /\ UNCHANGED <<result, stage>>
    /\ UNCHANGED <<runNo, dir, pingOk, pos, values, store0>>
    /\ UNCHANGED <<aggVars, dbVars, parseVars>>

\* the range loop up to its next call of insertNPerTx, or to its end and the
\* call for the remainder, or the return when nothing is left
BulkFill ==
    /\ pc = "fill"
    /\ LET left == Len(candles) - pos
           hit  == { k \in 1..left : Len(values) + PARAM_LENGTH * k = FullAt }
           take == IF hit # {} THEN CHOOSE k \in hit : \A h \in hit : k <= h
                   ELSE left
           vals == values \o Flatten(candles, pos, take)
       IN  /\ values' = vals
           /\ pos' = pos + take
           /\ IF hit # {}
              THEN /\ call' = LoopCall(vals)
                   /\ pc' = "begin"
                   /\ UNCHANGED <<result, stage>>
              ELSE IF Len(vals) > 0
              THEN /\ call' = TailCall(vals)
                   /\ pc' = "begin"
                   /\ UNCHANGED <<result, stage>>
              ELSE /\ Exit("ok", "")
                   /\ UNCHANGED call
    /\ UNCHANGED <<runNo, dir, pingOk, store0>>
    /\ UNCHANGED <<aggVars, parseVars, stmt, si, tx, pending, store, stmts, txs>>

(***************************************************************************)
(* insertNPerTx (main.go:261-281).  No path calls tx.Rollback: a return    *)
(* after Begin succeeded and before Commit leaves the transaction open.    *)
(***************************************************************************)
TxBeginOk ==
    /\ pc = "begin"
    /\ tx' = "open"
    /\ pending' = <<>>
    /\ txs' = txs + 1
    /\ pc' = "prepare"
    /\ UNCHANGED <<result, stage, runNo, dir, pingOk, pos, values, store0>>
    /\ UNCHANGED <<aggVars, parseVars, call, stmt, si, store, stmts>>

TxBeginFail ==
    /\ pc = "begin"
    /\ Exit("error", "insert")
    /\ UNCHANGED <<runNo, dir, pingOk, pos, values, store0>>
    /\ UNCHANGED <<aggVars, dbVars, parseVars>>

PrepareOk ==
    /\ pc = "prepare"
    /\ stmt' = Placeholders(insertNCandlesStatement(call.buf_len))
    /\ si' = 0
    /\ pc' = "exec"
    /\ UNCHANGED <<result, stage, runNo, dir, pingOk, pos, values, store0>>
    /\ UNCHANGED <<aggVars, parseVars, call, tx, pending, store, stmts, txs>>

PrepareFail ==
    /\ pc = "prepare"
    /\ Exit("error", "insert")
    /\ UNCHANGED <<runNo, dir, pingOk, pos, values, store0>>
    /\ UNCHANGED <<aggVars, dbVars, parseVars>>

\* one stmt.Exec of the loop; the driver rejects an argument count that is
\* not the statement's placeholder count
ExecOk ==
    /\ pc = "exec"
    /\ si < call.n
    /\ LET args == ArgsOf(values, si, call.buf_len, PARAM_LENGTH)
       IN  /\ Len(args) = stmt
           /\ pending' = pending \o RowsOf(args)
           /\ stmts' = Append(stmts, Len(RowsOf(args)))
    /\ si' = si + 1
    /\ pc' = IF si + 1 < call.n THEN "exec" ELSE "commit"
    /\ UNCHANGED <<result, stage, runNo, dir, pingOk, pos, values, store0>>
    /\ UNCHANGED <<aggVars, parseVars, call, stmt, tx, store, txs>>

ExecFail ==
    /\ pc = "exec"
    /\ si < call.n
    /\ Exit("error", "insert")
    /\ UNCHANGED <<runNo, dir, pingOk, pos, values, store0>>
    /\ UNCHANGED <<aggVars, dbVars, parseVars>>

\* tx.Commit succeeded; back in bulkInsert the buffer is emptied (line 247)
\* or, after the remainder's call, bulkInsert, seed and run return nil
CommitOk ==
    /\ pc = "commit"
    /\ store' = store \o pending
    /\ pending' = <<>>
    /\ tx' = "committed"
    /\ IF call.loop
       THEN /\ values' = <<>>
            /\ pc' = "fill"
            /\ UNCHANGED <<result, stage>>
       ELSE /\ Exit("ok", "")
            /\ UNCHANGED values
    /\ UNCHANGED <<runNo, dir, pingOk, pos, store0>>
    /\ UNCHANGED <<aggVars, parseVars, call, stmt, si, stmts, txs>>

\* tx.Commit failed: database/sql has ended the transaction, nothing of it
\* is in the table
CommitFail ==
    /\ pc = "commit"
    /\ tx' = "closed"
    /\ pending' = <<>>
    /\ Exit("error", "insert")
    /\ UNCHANGED <<runNo, dir, pingOk, pos, values, store0>>
    /\ UNCHANGED <<aggVars, parseVars, call, stmt, si, store, stmts, txs>>

(***************************************************************************)
(* The seeder is started again over the same directory and the same table  *)
(***************************************************************************)
Rerun ==
    /\ pc = "exit"
    /\ result = "ok"
    /\ runNo < MaxRuns
    /\ runNo' = runNo + 1
    /\ store0' = store
    /\ pc' = "loadenv"
    /\ result' = "running"
    /\ stage' = ""
    /\ idx' = 0
    /\ counts' = <<>>
    /\ qfail' = {}
    /\ opened' = {}
    /\ openfail' = {}
    /\ pingOk' = TRUE
    /\ candles' = <<>>
    /\ pos' = 0
    /\ values' = <<>>
    /\ call' = NoCall
    /\ stmt' = 0
    /\ si' = 0
    /\ tx' = "none"
    /\ pending' = <<>>
    /\ stmts' = <<>>
    /\ txs' = 0
    /\ UNCHANGED <<dir, store, parseVars>>

InsertNext ==
    \/ Seed
    \/ BulkFill
    \/ TxBeginOk
    \/ TxBeginFail
    \/ PrepareOk
    \/ PrepareFail
    \/ ExecOk
    \/ ExecFail
    \/ CommitOk
    \/ CommitFail

Next ==
    \/ LoadEnvOk
    \/ LoadEnvFail
    \/ ConnectPingOk
    \/ ConnectPingFail
    \/ ConnectOpenFail
    \/ ReadDirOk
    \/ ReadDirFail
    \/ EntryQueryOk
    \/ EntryQueryFail
    \/ AggregateReturn
    \/ Seed
    \/ BulkFill
    \/ TxBeginOk
    \/ TxBeginFail
    \/ PrepareOk
    \/ PrepareFail
    \/ ExecOk
    \/ ExecFail
    \/ CommitOk
    \/ CommitFail
    \/ Rerun

Spec == Init /\ [][Next]_vars

(***************************************************************************)
(* bulkInsert on its own: seed is handed N candles, told apart by volume   *)
(***************************************************************************)
MaxCandles == 1001

GenCandle(i) ==
    [Ticker |-> <<"A">>, Date |-> [y |-> 2023, m |-> 1, d |-> 3],
     Open |-> Decimal(FALSE, <<1>>, 0), Close |-> Decimal(FALSE, <<2>>, 0),
     High |-> Decimal(FALSE, <<3>>, 0), Low |-> Decimal(FALSE, <<4>>, 0),
     Volume |-> Int64(FALSE, NatDigits(i))]

InitBulk ==
    /\ pc = "seed"
    /\ result = "running"
    /\ stage = ""
    /\ runNo = 1
    /\ dir = <<>>
    /\ idx = 0
    /\ counts = <<>>
    /\ qfail = {}
    /\ opened = {}
    /\ openfail = {}
    /\ pingOk = TRUE
    /\ \E n \in 0..MaxCandles : candles = [i \in 1..n |-> GenCandle(i)]
    /\ pos = 0
    /\ values = <<>>
    /\ call = NoCall
    /\ stmt = 0
    /\ si = 0
    /\ tx = "none"
    /\ pending = <<>>
    /\ store = <<>>
    /\ store0 = <<>>
    /\ stmts = <<>>
    /\ txs = 0
    /\ prow = <<>>
    /\ pout = Outcome("none", NoCandle)

SpecBulk == InitBulk /\ [][InsertNext]_vars

(***************************************************************************)
(* createCandle on its own: one row, drawn from the fields below in the    *)
(* two column layouts, is handed to createCandle                           *)
(***************************************************************************)
Price5 == <<"7", ".">>
Price6 == <<".">>
PriceExp == <<"1", "e", "2">>
PriceNaN == <<"N", "a", "N">>
PriceInf == <<"-", "$", "i", "n", "f">>
PriceHex == <<"0", "x", "1", "p", "4">>
PriceSep == <<"1", "_", "0">>
PriceHuge == <<"1", "e", "3", "0", "9">>

Vol4 == <<"2", "1", "4", "7", "4", "8", "3", "6", "4", "8">>
Vol5 == <<"9", "2", "2", "3", "3", "7", "2", "0", "3", "6", "8", "5", "4", "7",
          "7", "5", "8", "0", "8">>

ParseDates == {DateISO1, DateISO2, DateISO3, DateUS1, DateBad}
ParsePrices == {Price1, Price2, Price3, Price4, Price5, Price6, PriceExp,
                PriceNaN, PriceInf, PriceHex, PriceSep, PriceHuge}
ParseVolumes == {Vol1, Vol2, Vol3, Vol4, Vol5}

\* date, open, high, low, close, adjusted close, volume (and a trailing field)
RowsLayoutA ==
    { <<d, o, h, l, c, Price2, v>> :
        d \in ParseDates, o \in {Price1, Price5, Price6}, h \in {Price2, Price4},
        l \in {Price1, Price3}, c \in ParsePrices, v \in ParseVolumes }
    \cup
    { <<d, Price1, Price2, Price3, c, Price2, v, Vol1>> :
        d \in ParseDates, c \in ParsePrices, v \in ParseVolumes }

\* Date,Close/Last,Volume,Open,High,Low (README.md)
RowsLayoutB ==
    { <<d, c, v, o, Price2, l>> :
        d \in ParseDates, c \in ParsePrices, v \in ParseVolumes,
        o \in {Price1, Price4}, l \in {Price1, Price3} }

InitParse ==
    /\ pc = "parse"
    /\ result = "running"
    /\ stage = ""
    /\ runNo = 1
    /\ dir = <<>>
    /\ idx = 0
    /\ counts = <<>>
    /\ qfail = {}
    /\ opened = {}
    /\ openfail = {}
    /\ pingOk = TRUE
    /\ candles = <<>>
    /\ pos = 0
    /\ values = <<>>
    /\ call = NoCall
    /\ stmt = 0
    /\ si = 0
    /\ tx = "none"
    /\ pending = <<>>
    /\ store = <<>>
    /\ store0 = <<>>
    /\ stmts = <<>>
    /\ txs = 0
    /\ prow \in RowsLayoutA \cup RowsLayoutB
    /\ pout = Outcome("none", NoCandle)

ParseRow ==
    /\ pc = "parse"
    /\ pout' = createCandle(<<"A">>, prow)
    /\ pc' = "parsed"
    /\ UNCHANGED <<result, stage, runNo, dir, pingOk, pos, values, store0, prow>>
    /\ UNCHANGED <<aggVars, dbVars>>

SpecParse == InitParse /\ [][ParseRow]_vars

(***************************************************************************)
(* Properties                                                              *)
(***************************************************************************)
Ceil(a, b) == (a + b - 1) \div b

Done == pc = "exit"
Succeeded == pc = "exit" /\ result = "ok"
NCandles == Len(candles)
PerTx == BUF_LENGTH * INSERTS_PER_TX

\* C1, as stated: for N >= 1 candles a run of bulkInsert with no database
\* failure issues exactly ceil(N/50) statements in exactly ceil(N/500)
\* transactions, every statement but possibly the last inserts 50 rows, and
\* when N mod 50 is not zero the last one inserts N mod 50 rows.
C1_StatementsPerBatch ==
    (Succeeded /\ NCandles >= 1) =>
        /\ Len(stmts) = Ceil(NCandles, BUF_LENGTH)
        /\ txs = Ceil(NCandles, PerTx)
        /\ \A i \in 1..(Len(stmts) - 1) : stmts[i] = BUF_LENGTH
        /\ (NCandles % BUF_LENGTH # 0 =>
                stmts[Len(stmts)] = NCandles % BUF_LENGTH)

\* C1, amended: for N >= 1 candles a run of bulkInsert with no database
\* failure issues 10 * floor(N/500) statements of exactly 50 rows each and,
\* when N mod 500 is not zero, one final statement that inserts all the
\* N mod 500 remaining rows, in exactly ceil(N/500) transactions.
C1_StatementsPerTransaction ==
    (Succeeded /\ NCandles >= 1) =>
        /\ txs = Ceil(NCandles, PerTx)
        /\ Len(stmts) = INSERTS_PER_TX * (NCandles \div PerTx)
                        + (IF NCandles % PerTx # 0 THEN 1 ELSE 0)
        /\ \A i \in 1..(INSERTS_PER_TX * (NCandles \div PerTx)) :
               stmts[i] = BUF_LENGTH
        /\ (NCandles % PerTx # 0 => stmts[Len(stmts)] = NCandles % PerTx)

\* a successful run over 551 candles: ten statements of 50 rows, then one
\* statement of 51 rows, in two transactions
C1_Witness ==
    /\ Succeeded
    /\ NCandles = PerTx + BUF_LENGTH + 1
    /\ Len(stmts) = INSERTS_PER_TX + 1
    /\ stmts[Len(stmts)] = BUF_LENGTH + 1
    /\ txs = 2

\* the rows this run has put in the table or executed in its transaction
RowsFor(ticker) == CountTicker(store \o pending, ticker)

\* C2: for every directory entry whose existence check found count > 0, the
\* run performs no insert for that ticker and never opens the entry's file.
C2_PresentTickerUntouched ==
    \A i \in 1..Len(counts) :
        counts[i] > 0 =>
            /\ i \notin opened
            /\ RowsFor(SplitStem(dir[i])) = CountTicker(store0, SplitStem(dir[i]))

\* C3: once a run over a directory has completed successfully, a further run
\* over the same directory inserts no row.
C3_ReseedInsertsNothing ==
    runNo >= 2 => (stmts = <<>> /\ pending = <<>> /\ store = store0)

\* C4: when a statement, the prepare or the commit fails inside insertNPerTx,
\* the transaction is rolled back: the operation has failed, no transaction
\* is left open and none of its rows is kept.
C4_FailedTransactionRolledBack ==
    (Done /\ stage = "insert") =>
        /\ result = "error"
        /\ tx # "open"
        /\ pending = <<>>

\* C5: every error ends the run at once with a failure: once the ping has
\* failed, or the existence query of an entry has failed, the run has stopped
\* with an error, neither that entry's file nor a later one has been read,
\* and nothing has been inserted.
C5_ErrorsStopTheRun ==
    (~pingOk \/ qfail # {}) =>
        /\ Done
        /\ result = "error"
        /\ (~pingOk => opened = {})
        /\ \A i \in qfail : \A j \in opened : j < i
        /\ txs = 0
        /\ stmts = <<>>

\* the data rows of a file that have a date time.Parse(layoutISO) rejects
BadDateRows(name) ==
    { k \in 2..Len(FileData(name)) : ~TimeParseISO(FileData(name)[k][1]).ok }

\* C6: when a file that is ingested (opened and read) has a data row whose
\* date does not parse, the run fails and no row of that file is inserted
\* (nothing at all is: no
\* statement is executed and the table is as the run found it).
C6_BadDateAbortsFile ==
    \A i \in opened \ openfail :
        BadDateRows(dir[i]) # {} =>
            /\ Done
            /\ result # "ok"
            /\ stage = "load"
            /\ txs = 0
            /\ stmts = <<>>
            /\ pending = <<>>
            /\ store = store0

\* a good file was parsed, then the file with a good row followed by the
\* row dated not-a-date ended the run
C6_Witness ==
    /\ \E i \in opened \ openfail :
          /\ dir[i] = <<"B", ".", "c">>
          /\ BadDateRows(dir[i]) = {3}
          /\ i > 1
    /\ Len(candles) > 0
    /\ result = "error"
    /\ store = store0

ValidPrice(f) == parse(clean(f)).ok
VolumeOf(f) == IF ParseInt(f).ok THEN ParseInt(f).val ELSE Zero64
DateOf(t) == [y |-> t.y, m |-> t.m, d |-> t.d]

ValidLayoutB(r) ==
    /\ Len(r) = 6
    /\ TimeParseUS(r[1]).ok
    /\ ValidPrice(r[2]) /\ ValidPrice(r[4]) /\ ValidPrice(r[5]) /\ ValidPrice(r[6])

\* C7: every valid row of the documented format Date,Close/Last,Volume,Open,
\* High,Low with a MM/DD/YYYY date parses, to the date of column 0, close of
\* column 1, volume of column 2 (0 when not an integer), open of column 3,
\* high of column 4 and low of column 5.
C7_LayoutBParses ==
    (pc = "parsed" /\ ValidLayoutB(prow)) =>
        /\ pout.kind = "ok"
        /\ pout.candle.Date = DateOf(TimeParseUS(prow[1]))
        /\ pout.candle.Close = parse(clean(prow[2])).val
        /\ pout.candle.Volume = VolumeOf(prow[3])
        /\ pout.candle.Open = parse(clean(prow[4])).val
        /\ pout.candle.High = parse(clean(prow[5])).val
        /\ pout.candle.Low = parse(clean(prow[6])).val

ValidLayoutA(r) ==
    /\ Len(r) >= 7
    /\ TimeParseISO(r[1]).ok
    /\ ValidPrice(r[2]) /\ ValidPrice(r[3]) /\ ValidPrice(r[4]) /\ ValidPrice(r[5])

\* C8: every valid row with a YYYY-MM-DD date and seven or more columns gives
\* a candle with the date of column 0, open of column 1, high of column 2,
\* low of column 3, close of column 4, each with "$" stripped, and the
\* volume of column 6, which is 0 when that column is not an integer.
C8_LayoutAParses ==
    (pc = "parsed" /\ ValidLayoutA(prow)) =>
        /\ pout.kind = "ok"
        /\ pout.candle.Ticker = <<"A">>
        /\ pout.candle.Date = DateOf(TimeParseISO(prow[1]))
        /\ pout.candle.Open = parse(clean(prow[2])).val
        /\ pout.candle.High = parse(clean(prow[3])).val
        /\ pout.candle.Low = parse(clean(prow[4])).val
        /\ pout.candle.Close = parse(clean(prow[5])).val
        /\ pout.candle.Volume = VolumeOf(prow[7])
        /\ (~ParseInt(prow[7]).ok => pout.candle.Volume = Zero64)

\* 2024-02-29,$125.07,130.9,$12.50,7.,130.9,N/A gives open 125.07, high
\* 130.9, low 12.5, close 7 and volume 0
C8_Witness ==
    /\ pc = "parsed"
    /\ prow = <<DateISO2, Price1, Price2, Price3, Price5, Price2, Vol2>>
    /\ pout.kind = "ok"
    /\ pout.candle.Date = [y |-> 2024, m |-> 2, d |-> 29]
    /\ pout.candle.Open = Float("num", FALSE, <<1, 2, 5, 0, 7>>, 2)
    /\ pout.candle.High = Float("num", FALSE, <<1, 3, 0, 9>>, 2)
    /\ pout.candle.Low = Float("num", FALSE, <<1, 2, 5>>, 1)
    /\ pout.candle.Close = Float("num", FALSE, <<7>>, 0)
    /\ pout.candle.Volume = Zero64

\* transactions of this run whose commit succeeded
CommittedTxs == IF tx \in {"open", "closed"} THEN txs - 1 ELSE txs

\* C9: at every point of bulkInsert the rows committed by the run are a
\* prefix of the candle sequence, in order, nothing repeated or left out;
\* its length is N after success and otherwise 500 times the number of
\* transactions committed so far, so a failure takes nothing back.
C9_CommittedPrefix ==
    /\ Len(store) <= NCandles
    /\ store = [i \in 1..Len(store) |-> Params(candles[i])]
    /\ (Succeeded => Len(store) = NCandles)
    /\ (~Succeeded => Len(store) = PerTx * CommittedTxs)

\* the second transaction failed after the first had committed its 500 rows
C9_Witness ==
    /\ Done
    /\ result = "error"
    /\ txs = 2
    /\ Len(stmts) > INSERTS_PER_TX
    /\ Len(store) = PerTx

RECURSIVE DataRowsOf(_, _)
\* the data rows of the entries of d whose stem is ticker
DataRowsOf(d, ticker) ==
    IF d = <<>> THEN 0
    ELSE (IF SplitStem(Head(d)) = ticker THEN Len(FileData(Head(d))) - 1 ELSE 0)
         + DataRowsOf(Tail(d), ticker)

\* C10: nothing is inserted before every entry has been checked and every
\* file not skipped has been parsed, so each existence check sees the table
\* as the run found it; two entries with the same stem, absent from the
\* table at the start, are then both read, and a run that succeeds has
\* inserted the rows of both under that ticker.
C10_ChecksBeforeInserts ==
    /\ (txs > 0 \/ stmts # <<>> \/ pending # <<>> \/ store # store0) =>
           (idx = Len(dir) /\ pc \notin {"loadenv", "connect", "readdir", "entries"})
    /\ \A i \in 1..Len(counts) :
           i \notin qfail => counts[i] = CountTicker(store0, SplitStem(dir[i]))
    /\ \A i, j \in 1..Len(counts) :
           (i # j /\ SplitStem(dir[i]) = SplitStem(dir[j])
                  /\ CountTicker(store0, SplitStem(dir[i])) = 0) =>
               /\ counts[i] = 0
               /\ counts[j] = 0
               /\ {i, j} \subseteq opened
               /\ (Succeeded =>
                      CountTicker(store, SplitStem(dir[i]))
                          = DataRowsOf(dir, SplitStem(dir[i])))

\* A.c (two rows) and A.t (one row), ticker A not in the table: the run
\* succeeded and the table holds three rows of A
C10_Witness ==
    /\ Succeeded
    /\ \E i, j \in opened :
          /\ dir[i] = <<"A", ".", "c">>
          /\ dir[j] = <<"A", ".", "t">>
    /\ CountTicker(store0, <<"A">>) = 0
    /\ CountTicker(store, <<"A">>) = 3

=============================================================================
